---------------------------- MODULE Spec2Model ----------------------------
(***************************************************************************)
(* A model of exarch: the Markdown-to-Gemtext converter (src/markgem.rs)   *)
(* the Gemini request reader and the accept loop with its per-connection  *)
(* tasks (src/serve.rs).                                                   *)
(*                                                                         *)
(* Bytes and characters are one-character strings; a string or a byte      *)
(* vector is a sequence of them.                                           *)
(***************************************************************************)
EXTENDS Integers, Sequences, FiniteSets, TLC

VARIABLES
    \* ---- markgem.rs: to_gemini / Converter ----
    mg_pc,          \* position in to_gemini: "convert" (inside the event loop) or "done"
    out,            \* the bytes written so far through Converter::out
    next_link_id,   \* Converter::next_link_id
    links,          \* Converter::links, the pending Link queue
    result,         \* the Vec<u8> to_gemini returns (set when mg_pc = "done")
    list,           \* the parser's innermost open list: "none", "unordered" or "ordered"
    open,           \* the parser's open inline container: "flow", "heading" or "item"
    h_events,       \* history: number of events the loop has consumed
    h_linkEnds,     \* history: number of End(Link) events consumed
    h_itemNo,       \* history: number of Start(Item) events of the open list
    h_last,         \* history: the event consumed by the last iteration
    h_prev,         \* history: [out, links] as they were before the last iteration
    h_sincePara,    \* history: the links of the End(Link) events since the last End(Paragraph)
    \* ---- markgem.rs: strip_matter ----
    sm_pc,          \* "start", "stripped" (applied once) or "again" (applied twice)
    sm_in,          \* the markdown text given to strip_matter
    sm_splits,      \* strip_matter's local `splits`
    sm_out,         \* what strip_matter returned for sm_in
    sm_twice,       \* what strip_matter returned for sm_out
    \* ---- serve.rs: read_request ----
    rr_pc,          \* "reading" (inside the loop), "ok" or "err" (returned)
    rr_stream,      \* the bytes the client sends on the connection
    rr_sent,        \* how many of them earlier reads have delivered
    request,        \* the buffer `request`, MAX_URL_LENGTH + EOL.len() bytes
    len,            \* the filled length `len`
    rr_text,        \* the &str sliced from the buffer once the loop breaks
    rr_result,      \* what read_request returned: the Url, or the error
    \* ---- serve.rs: serve / Server::handle_stream / handle_inner / reply ----
    listener,       \* the accept loop of serve: "accepting" or "returned"
    accepted,       \* how many connections incoming.next() has yielded
    fate,           \* per connection: what its client and the files make of its handling
    task,           \* per connection: "none" (not accepted), "running", "closed" or "errored"
    step,           \* per connection: the position of its task in handle_inner
    wrote,          \* per connection: what has been written to its tls_stream
    logged,         \* per connection: error!("Error while handling stream") was logged
    h_trace,        \* history, per connection: the statements that completed with Ok
    h_acceptError   \* history: incoming.next() has yielded an Err

mgVars == <<mg_pc, out, next_link_id, links, result, list, open,
            h_events, h_linkEnds, h_itemNo, h_last, h_prev, h_sincePara>>

smVars == <<sm_pc, sm_in, sm_splits, sm_out, sm_twice>>

rrVars == <<rr_pc, rr_stream, rr_sent, request, len, rr_text, rr_result>>

svVars == <<listener, accepted, fate, task, step, wrote, logged, h_trace,
            h_acceptError>>

vars == <<mgVars, smVars, rrVars, svVars>>

-----------------------------------------------------------------------------
(* Bounds of the model. *)

\* Longest event sequence the parser hands to Converter::convert.
MaxEvents == 5
\* Deepest heading the parser reports (Tag::Heading(depth), depth >= 1).
MaxHeading == 4
\* Longest markdown text given to strip_matter.
MaxText == 11
\* Longest tail of arbitrary bytes a client stream ends with.
MaxTail == 3
\* Reads deliver at most this many bytes, or all but at most this many of
\* the bytes that are there and fit.
MaxChunk == 2
\* Connections that clients open while the server runs.
MaxConns == 2

-----------------------------------------------------------------------------
(* Strings. *)

Min(a, b) == IF a <= b THEN a ELSE b

Max(a, b) == IF a >= b THEN a ELSE b

\* n copies of the character c (vec![b'#'; n]).
Repeat(c, n) == [i \in 1..n |-> c]

Digit(d) == <<"0", "1", "2", "3", "4", "5", "6", "7", "8", "9">>[d + 1]

\* format!("{}", n) of an unsigned integer: its decimal digits.
RECURSIVE Decimal(_)
Decimal(n) == IF n < 10 THEN <<Digit(n)>>
              ELSE Decimal(n \div 10) \o <<Digit(n % 10)>>

\* EndsWith that looks at the last byte only.
EndsWith_LastByte(s, e) ==
    /\ Len(s) >= 1
    /\ s[Len(s)] = e[Len(e)]

\* Whether sequence s ends with sequence e (slice::ends_with).
EndsWith(s, e) ==
    /\ Len(s) >= Len(e)
    /\ SubSeq(s, Len(s) - Len(e) + 1, Len(s)) = e

-----------------------------------------------------------------------------
(* The events pulldown_cmark hands to the converter.  Every event is a     *)
(* record of the same shape; a field an event kind does not carry is at    *)
(* its default.                                                            *)

NoEvent == [kind |-> "None", depth |-> 0, destination |-> <<>>, title |-> <<>>,
            text |-> <<>>]

Ev(k) == [NoEvent EXCEPT !.kind = k]

\* Event::Text payloads.
Texts == {<<"a">>}

\* Tag::Link destinations and titles; an empty title is "no title".
LinkTargets == {[destination |-> <<"u">>, title |-> <<>>],
                [destination |-> <<"v">>, title |-> <<"t">>]}

\* The inline tags whose start and end events write the same marker.
MarkerKinds == {"StartEmphasis", "EndEmphasis", "StartStrong", "EndStrong",
                "StartStrikethrough", "EndStrikethrough"}

\* The literal an inline marker event writes.
Marker(k) ==
    CASE k \in {"StartEmphasis", "EndEmphasis"} -> <<"*">>
      [] k \in {"StartStrong", "EndStrong"} -> <<"*", "*">>
      [] k \in {"StartStrikethrough", "EndStrikethrough"} -> <<"~", "~">>

-----------------------------------------------------------------------------
(* Converter *)

\* Converter::new
ConverterNew == [out |-> <<>>, next_link_id |-> 1, links |-> <<>>]

\* HeadingMarks without the clamp at three.
HeadingMarks_Unclamped(depth) == Repeat("#", depth)

\* The '#' run of a heading: vec![b'#'; depth.min(3)].
HeadingMarks(depth) == Repeat("#", Min(depth, 3))

\* One link line of write_pending_links: "=> ", the destination, and the
\* title after a space when it is not empty, then a newline.
LinkLine(link) ==
    <<"=", ">", " ">> \o link.destination
    \o (IF link.title # <<>> THEN <<" ">> \o link.title ELSE <<>>)
    \o <<"\n">>

RECURSIVE LinkLines(_)
LinkLines(ls) == IF ls = <<>> THEN <<>>
                 ELSE LinkLine(Head(ls)) \o LinkLines(Tail(ls))

\* WritePendingLinks that forgets to empty the queue.
WritePendingLinks_KeepQueue(o, ls) ==
    IF ls = <<>> THEN [out |-> o, links |-> ls]
    ELSE [out |-> o \o LinkLines(ls) \o <<"\n">>, links |-> ls]

\* WritePendingLinks without the early return on an empty queue.
WritePendingLinks_AlwaysPads(o, ls) ==
    [out |-> o \o LinkLines(ls) \o <<"\n">>, links |-> <<>>]

\* Converter::write_pending_links on output o and queue ls.
WritePendingLinks(o, ls) ==
    IF ls = <<>> THEN [out |-> o, links |-> ls]
    ELSE [out |-> o \o LinkLines(ls) \o <<"\n">>, links |-> <<>>]

\* The marker handle_link writes: format!("[{}]", id).
LinkMarker(id) == <<"[">> \o Decimal(id) \o <<"]">>

\* TrimNewlines with `if` for `while`: at most one newline goes.
TrimNewlines_Once(v) ==
    IF v # <<>> /\ v[Len(v)] = "\n" THEN SubSeq(v, 1, Len(v) - 1) ELSE v

\* to_gemini's trailing loop: while vec.last() == Some(&b'\n') { vec.pop(); }
RECURSIVE TrimNewlines(_)
TrimNewlines(v) ==
    IF v # <<>> /\ v[Len(v)] = "\n" THEN TrimNewlines(SubSeq(v, 1, Len(v) - 1))
    ELSE v

-----------------------------------------------------------------------------
(* to_gemini: the event loop of Converter::convert, one action per match   *)
(* arm, and the return.                                                    *)

\* The bookkeeping every loop iteration shares: the event is consumed and
\* the state before it is remembered.
Consume(ev) ==
    /\ mg_pc = "convert"
    /\ h_events < MaxEvents
    /\ h_events' = h_events + 1
    /\ h_last' = ev
    /\ h_prev' = [out |-> out, links |-> links]
    /\ h_sincePara' = IF ev.kind = "EndParagraph" THEN <<>>
                      ELSE IF ev.kind = "EndLink"
                      THEN Append(h_sincePara, [destination |-> ev.destination,
                                                title |-> ev.title])
                      ELSE h_sincePara
    /\ UNCHANGED <<mg_pc, result>>
    /\ UNCHANGED <<smVars, rrVars, svVars>>

\* Event::Start/End of Emphasis, Strong, Strikethrough.
ConvertMarker ==
    \E k \in MarkerKinds :
        /\ Consume(Ev(k))
        /\ out' = out \o Marker(k)
        /\ UNCHANGED <<next_link_id, links, list, open, h_linkEnds, h_itemNo>>

\* Event::Start(Tag::BlockQuote)
ConvertBlockQuote ==
    /\ open = "flow"
    /\ Consume(Ev("StartBlockQuote"))
    /\ out' = out \o <<">">>
    /\ UNCHANGED <<next_link_id, links, list, open, h_linkEnds, h_itemNo>>

\* Event::Start(Tag::List(first)): ignored by the converter (the `_` arm).
\* first = None opens an unordered list, Some(n) an ordered one.
ConvertStartList ==
    \E ordered \in BOOLEAN :
        /\ open = "flow" /\ list = "none"
        /\ Consume(Ev(IF ordered THEN "StartOrderedList" ELSE "StartUnorderedList"))
        /\ list' = IF ordered THEN "ordered" ELSE "unordered"
        /\ h_itemNo' = 0
        /\ UNCHANGED <<out, next_link_id, links, open, h_linkEnds>>

\* Event::Start(Tag::Item)
ConvertStartItem ==
    /\ open = "flow" /\ list # "none"
    /\ Consume(Ev("StartItem"))
    /\ out' = out \o <<"*", " ">>
    /\ open' = "item"
    /\ h_itemNo' = h_itemNo + 1
    /\ UNCHANGED <<next_link_id, links, list, h_linkEnds>>

\* Event::End(Tag::Item)
ConvertEndItem ==
    /\ open = "item"
    /\ Consume(Ev("EndItem"))
    /\ out' = out \o <<"\n">>
    /\ open' = "flow"
    /\ UNCHANGED <<next_link_id, links, list, h_linkEnds, h_itemNo>>

\* Event::End(Tag::List(_))
ConvertEndList ==
    /\ open = "flow" /\ list # "none" /\ h_itemNo > 0
    /\ Consume(Ev("EndList"))
    /\ out' = out \o <<"\n">>
    /\ list' = "none"
    /\ UNCHANGED <<next_link_id, links, open, h_linkEnds, h_itemNo>>

\* Event::Start(Tag::Heading(depth))
ConvertStartHeading ==
    \E depth \in 1..MaxHeading :
        /\ open = "flow" /\ list = "none"
        /\ Consume([Ev("StartHeading") EXCEPT !.depth = depth])
        /\ out' = out \o HeadingMarks(depth) \o <<" ">>
        /\ open' = "heading"
        /\ UNCHANGED <<next_link_id, links, list, h_linkEnds, h_itemNo>>

\* Event::End(Tag::Heading(_))
ConvertEndHeading ==
    /\ open = "heading"
    /\ Consume(Ev("EndHeading"))
    /\ out' = out \o <<"\n", "\n">>
    /\ open' = "flow"
    /\ UNCHANGED <<next_link_id, links, list, h_linkEnds, h_itemNo>>

\* ConvertEndParagraph that also restarts the link ids for the next paragraph.
ConvertEndParagraph_ResetIds ==
    /\ open = "flow" /\ list = "none"
    /\ Consume(Ev("EndParagraph"))
    /\ LET w == WritePendingLinks(out \o <<"\n", "\n">>, links)
       IN  /\ out' = w.out
           /\ links' = w.links
    /\ next_link_id' = 1
    /\ UNCHANGED <<list, open, h_linkEnds, h_itemNo>>

\* Event::End(Tag::Paragraph): two newlines, then write_pending_links.
ConvertEndParagraph ==
    /\ open = "flow" /\ list = "none"
    /\ Consume(Ev("EndParagraph"))
    /\ LET w == WritePendingLinks(out \o <<"\n", "\n">>, links)
       IN  /\ out' = w.out
           /\ links' = w.links
    /\ UNCHANGED <<next_link_id, list, open, h_linkEnds, h_itemNo>>

\* Event::End(Tag::Link(_, destination, title)): Converter::handle_link.
ConvertEndLink ==
    \E l \in LinkTargets :
        /\ Consume([Ev("EndLink") EXCEPT !.destination = l.destination,
                                         !.title = l.title])
        /\ links' = Append(links, l)
        /\ out' = out \o LinkMarker(next_link_id)
        /\ next_link_id' = next_link_id + 1
        /\ h_linkEnds' = h_linkEnds + 1
        /\ UNCHANGED <<list, open, h_itemNo>>

\* Event::Text(text)
ConvertText ==
    \E t \in Texts :
        /\ Consume([Ev("Text") EXCEPT !.text = t])
        /\ out' = out \o t
        /\ UNCHANGED <<next_link_id, links, list, open, h_linkEnds, h_itemNo>>

\* Event::SoftBreak
ConvertSoftBreak ==
    /\ open # "heading"
    /\ Consume(Ev("SoftBreak"))
    /\ out' = out \o <<" ">>
    /\ UNCHANGED <<next_link_id, links, list, open, h_linkEnds, h_itemNo>>

\* Every other event (Start(Paragraph), Start(Link), Code, Html, Rule, ...):
\* the `_ => ()` arm.
ConvertOther ==
    /\ Consume(Ev("Other"))
    /\ UNCHANGED <<out, next_link_id, links, list, open, h_linkEnds, h_itemNo>>

\* The parser is exhausted: convert returns, to_gemini trims the trailing
\* newlines and returns the vector.
Return ==
    /\ mg_pc = "convert"
    /\ open = "flow" /\ list = "none"
    /\ mg_pc' = "done"
    /\ result' = TrimNewlines(out)
    /\ UNCHANGED <<out, next_link_id, links, list, open,
                   h_events, h_linkEnds, h_itemNo, h_last, h_prev, h_sincePara>>
    /\ UNCHANGED <<smVars, rrVars, svVars>>

MgInit ==
    /\ mg_pc = "convert"
    /\ out = ConverterNew.out
    /\ next_link_id = ConverterNew.next_link_id
    /\ links = ConverterNew.links
    /\ result = <<>>
    /\ list = "none"
    /\ open = "flow"
    /\ h_events = 0
    /\ h_linkEnds = 0
    /\ h_itemNo = 0
    /\ h_last = NoEvent
    /\ h_prev = [out |-> <<>>, links |-> <<>>]
    /\ h_sincePara = <<>>

MgNext ==
    \/ ConvertMarker
    \/ ConvertBlockQuote
    \/ ConvertStartList
    \/ ConvertStartItem
    \/ ConvertEndItem
    \/ ConvertEndList
    \/ ConvertStartHeading
    \/ ConvertEndHeading
    \/ ConvertEndParagraph
    \/ ConvertEndLink
    \/ ConvertText
    \/ ConvertSoftBreak
    \/ ConvertOther
    \/ Return

-----------------------------------------------------------------------------
(* strip_matter *)

\* The texts strip_matter is applied to: every string of '+' and 'a' of at
\* most n characters.
RECURSIVE StringsUpTo(_, _)
StringsUpTo(alphabet, n) ==
    IF n = 0 THEN {<<>>}
    ELSE LET shorter == StringsUpTo(alphabet, n - 1)
         IN  shorter \cup {Append(s, c) : s \in {t \in shorter : Len(t) = n - 1},
                                          c \in alphabet}

\* The front matter delimiter "+++".
Delimiter == <<"+", "+", "+">>

\* str::find: the index of the first match of pat in s at or after i, 0 if
\* there is none.
RECURSIVE FindFrom(_, _, _)
FindFrom(s, pat, i) ==
    IF i + Len(pat) - 1 > Len(s) THEN 0
    ELSE IF SubSeq(s, i, i + Len(pat) - 1) = pat THEN i
    ELSE FindFrom(s, pat, i + 1)

\* str::splitn(n, pat): at most n pieces, cut at the leftmost matches; the
\* last piece is the whole remainder.
RECURSIVE SplitN(_, _, _)
SplitN(n, s, pat) ==
    IF n = 0 THEN <<>>
    ELSE IF n = 1 THEN <<s>>
    ELSE LET i == FindFrom(s, pat, 1)
         IN  IF i = 0 THEN <<s>>
             ELSE <<SubSeq(s, 1, i - 1)>>
                  \o SplitN(n - 1, SubSeq(s, i + Len(pat), Len(s)), pat)

\* Splits with splitn(2, ..).
Splits_Twice(markdown) == SplitN(2, markdown, Delimiter)

\* let splits: Vec<_> = markdown.splitn(3, "+++").collect();
Splits(markdown) == SplitN(3, markdown, Delimiter)

\* StripMatter that returns the front matter when there are three segments.
StripMatter_SecondSegment(markdown) ==
    LET splits == Splits(markdown)
    IN  CASE Len(splits) = 1 -> splits[1]
          [] Len(splits) = 2 -> splits[2]
          [] Len(splits) = 3 -> splits[2]
          [] OTHER -> markdown

\* strip_matter
StripMatter(markdown) ==
    LET splits == Splits(markdown)
    IN  CASE Len(splits) = 1 -> splits[1]
          [] Len(splits) = 2 -> splits[2]
          [] Len(splits) = 3 -> splits[3]
          [] OTHER -> markdown

SmInit ==
    /\ sm_pc = "start"
    /\ sm_in \in StringsUpTo({"+", "a"}, MaxText)
    /\ sm_splits = <<>>
    /\ sm_out = <<>>
    /\ sm_twice = <<>>

\* strip_matter(markdown)
Strip ==
    /\ sm_pc = "start"
    /\ sm_pc' = "stripped"
    /\ sm_splits' = Splits(sm_in)
    /\ sm_out' = StripMatter(sm_in)
    /\ UNCHANGED <<sm_in, sm_twice>>
    /\ UNCHANGED <<mgVars, rrVars, svVars>>

\* strip_matter applied to its own result
StripAgain ==
    /\ sm_pc = "stripped"
    /\ sm_pc' = "again"
    /\ sm_twice' = StripMatter(sm_out)
    /\ UNCHANGED <<sm_in, sm_splits, sm_out>>
    /\ UNCHANGED <<mgVars, rrVars, svVars>>

SmNext == Strip \/ StripAgain

-----------------------------------------------------------------------------
(* read_request *)

MAX_URL_LENGTH == 1024

\* const EOL: &'static [u8] = b"\r\n";
EOL == <<"\r", "\n">>

\* A buffer one byte too long.
Capacity_OneMore == MAX_URL_LENGTH + Len(EOL) + 1

\* The size of the buffer `request`.
Capacity == MAX_URL_LENGTH + Len(EOL)

\* A byte no UTF-8 text holds.
XFF == "xFF"

\* The scheme read_request accepts.
Gemini == <<"g", "e", "m", "i", "n", "i">>

\* How a client's request may start: nothing special, the gemini scheme,
\* another scheme, a byte that is not UTF-8.
Heads == {<<>>, Gemini \o <<":">>, <<"x", ":">>, <<XFF>>}

\* The head that is followed by a long run of 'x'.
GeminiHead == Gemini \o <<":">>

\* The lengths of the run of 'x' after a head: none, or (after the gemini
\* head) one that makes head and run about MAX_URL_LENGTH bytes long.
FillLengths(head) ==
    IF head = GeminiHead
    THEN {0} \cup {n - Len(head) : n \in (MAX_URL_LENGTH - 1)..MAX_URL_LENGTH}
    ELSE {0}

\* The client streams: a head, a run of 'x', and a tail of arbitrary bytes.
Streams ==
    UNION {{h \o [i \in 1..n |-> "x"] \o t :
                n \in FillLengths(h), t \in StringsUpTo({"x", "\r", "\n"}, MaxTail)} :
           h \in Heads}

\* std::str::from_utf8 succeeds.
ValidUtf8(bytes) == \A i \in 1..Len(bytes) : bytes[i] # XFF

SchemeChars == {"g", "e", "m", "i", "n", "x"}

\* Url::parse(text): tabs and newlines are dropped, then the text must start
\* with a scheme and ':'; without one there is no base to resolve it
\* against.
UrlParse(text) ==
    LET input == SelectSeq(text, LAMBDA c : c \notin {"\r", "\n"})
        colons == {i \in 1..Len(input) : input[i] = ":"}
        colon == IF colons = {} THEN 0
                 ELSE CHOOSE i \in colons : \A j \in colons : i <= j
    IN  IF colon > 1 /\ \A i \in 1..(colon - 1) : input[i] \in SchemeChars
        THEN [ok |-> TRUE, scheme |-> SubSeq(input, 1, colon - 1),
              rest |-> SubSeq(input, colon + 1, Len(input))]
        ELSE [ok |-> FALSE, scheme |-> <<>>, rest |-> <<>>]

\* read_request after its loop: decode, parse, fix and check the scheme.
ParseRequest(text) ==
    IF ~ValidUtf8(text)
    THEN [ok |-> FALSE, error |-> "could not parse request as utf8"]
    ELSE LET parsed == UrlParse(text)
         IN  IF ~parsed.ok
             THEN [ok |-> FALSE, error |-> "relative URL without a base"]
             ELSE LET scheme == IF parsed.scheme = <<>> THEN Gemini
                                ELSE parsed.scheme
                  IN  IF scheme # Gemini
                      THEN [ok |-> FALSE, error |-> "Unknown url scheme"]
                      ELSE [ok |-> TRUE, scheme |-> scheme, rest |-> parsed.rest]

\* The sizes one stream.read(&mut request[len..]) may return: 0 when the
\* slice is empty or the client has closed after sending everything,
\* otherwise at least one of the bytes that are there.
ReadSizes ==
    LET space == Capacity - len
        there == Len(rr_stream) - rr_sent
        most == Min(space, there)
    IN  IF most = 0 THEN {0}
        ELSE (1..Min(most, MaxChunk)) \cup (Max(1, most - MaxChunk)..most)

RrInit ==
    /\ rr_pc = "reading"
    /\ rr_stream \in Streams
    /\ rr_sent = 0
    /\ request = <<>>
    /\ len = 0
    /\ rr_text = <<>>
    /\ rr_result = [ok |-> FALSE, error |-> "none"]

\* One iteration of the loop of read_request and, when the loop breaks, the
\* rest of the function.  `request` holds the filled part request[..len] of
\* the buffer; the code reads nothing of the rest.
ReadRequest ==
    /\ rr_pc = "reading"
    /\ \E bytes_read \in ReadSizes :
        /\ request' = request \o SubSeq(rr_stream, rr_sent + 1, rr_sent + bytes_read)
        /\ len' = len + bytes_read
        /\ rr_sent' = rr_sent + bytes_read
        /\ IF EndsWith(request', EOL)
           THEN /\ rr_text' = SubSeq(request', 1, len' - Len(EOL))
                /\ rr_result' = ParseRequest(rr_text')
                /\ rr_pc' = IF rr_result'.ok THEN "ok" ELSE "err"
           ELSE IF bytes_read = 0
           THEN /\ rr_result' = [ok |-> FALSE, error |-> "Unexpected end of request"]
                /\ rr_pc' = "err"
                /\ UNCHANGED rr_text
           ELSE UNCHANGED <<rr_pc, rr_text, rr_result>>
    /\ UNCHANGED rr_stream
    /\ UNCHANGED <<mgVars, smVars, svVars>>

RrNext == ReadRequest

-----------------------------------------------------------------------------
(* serve, Server::handle_stream, Server::handle_inner, Server::reply: the   *)
(* accept loop and one task per accepted connection.                        *)

\* The connections clients open, in the order the listener yields them.
Conns == 1..MaxConns

\* What reply writes first, and the converted document it writes next (the
\* conversion itself is the subject of SpecMarkgem).
StatusLine == "20 text/gemini\r\n"

Body == "gemini"

\* reply with its first two statements exchanged.
ReplyPlan_StatusFirst == <<"write_status", "read_to_string", "to_gemini", "write_body">>

\* The statements of reply that can fail or suspend, in program order: the
\* file is read, the status line is written, the text is converted, the
\* converted bytes are written.
ReplyPlan == <<"read_to_string", "write_status", "to_gemini", "write_body">>

\* The statements of handle_inner, in program order, reply's inlined.
HandlePlan == <<"peer_addr", "accept", "read_request">> \o ReplyPlan \o <<"flush">>

\* The statements whose Result can be an Err: all but to_gemini, whose only
\* failure is a write fault on its in-memory vector.
FailSteps == {"peer_addr", "accept", "read_request", "read_to_string",
              "write_status", "write_body", "flush"}

\* The awaits a silent client leaves pending for ever: the TLS handshake
\* and the reading of the request line. No deadline is set on either.
StallSteps == {"accept", "read_request"}

\* What a connection's client and files make of its handling: every
\* statement succeeds, or one fails, or one never completes.
Fates == {[kind |-> "ok", at |-> "none"]}
         \cup {[kind |-> "fail", at |-> s] : s \in FailSteps}
         \cup {[kind |-> "stall", at |-> s] : s \in StallSteps}

\* handle_stream awaiting handle_inner itself: the loop takes the next
\* connection only once no handler is running.
CanAccept_Serial ==
    /\ listener = "accepting"
    /\ accepted < MaxConns
    /\ \A c \in Conns : task[c] # "running"

\* The accept loop is at incoming.next() and a client is connecting.
\* handle_stream returns as soon as it has spawned the task, so the loop is
\* back here whatever the earlier connections' tasks are doing.
CanAccept ==
    /\ listener = "accepting"
    /\ accepted < MaxConns

\* while let Some(stream) = incoming.next().await, stream is Ok:
\* handle_stream spawns the task that runs handle_inner and returns Ok(()).
Accept ==
    /\ CanAccept
    /\ accepted' = accepted + 1
    /\ task' = [task EXCEPT ![accepted + 1] = "running"]
    /\ step' = [step EXCEPT ![accepted + 1] = 1]
    /\ UNCHANGED <<listener, fate, wrote, logged, h_trace, h_acceptError>>
    /\ UNCHANGED <<mgVars, smVars, rrVars>>

\* incoming.next() yields an Err: `stream.context("bad stream")?` returns
\* from serve, block_on returns and the process ends with its tasks.
AcceptFails ==
    /\ listener = "accepting"
    /\ listener' = "returned"
    /\ h_acceptError' = TRUE
    /\ UNCHANGED <<accepted, fate, task, step, wrote, logged, h_trace>>
    /\ UNCHANGED <<mgVars, smVars, rrVars>>

\* What a successful statement s adds to the bytes written to the client.
Written(s, w) ==
    IF s = "write_status" THEN Append(w, StatusLine)
    ELSE IF s = "write_body" THEN Append(w, Body)
    ELSE w

\* The task of connection c can run its next statement.
Runnable(c) ==
    /\ listener = "accepting"
    /\ task[c] = "running"
    /\ step[c] <= Len(HandlePlan)
    /\ ~(fate[c].kind = "stall" /\ fate[c].at = HandlePlan[step[c]])

\* The next statement of handle_inner (or of reply) completes with Ok; after
\* the last one, flush, handle_inner returns Ok(()) and the stream is
\* dropped.
HandleStep(c) ==
    /\ Runnable(c)
    /\ ~(fate[c].kind = "fail" /\ fate[c].at = HandlePlan[step[c]])
    /\ h_trace' = [h_trace EXCEPT ![c] = Append(@, HandlePlan[step[c]])]
    /\ wrote' = [wrote EXCEPT ![c] = Written(HandlePlan[step[c]], @)]
    /\ step' = [step EXCEPT ![c] = @ + 1]
    /\ task' = [task EXCEPT ![c] = IF step[c] = Len(HandlePlan)
                                   THEN "closed" ELSE "running"]
    /\ UNCHANGED <<listener, accepted, fate, logged, h_acceptError>>
    /\ UNCHANGED <<mgVars, smVars, rrVars>>

\* The failing statement's error swallowed: the handler goes on with the
\* next statement.
FailureOutcome_Ignored(p) == [task |-> "running", step |-> p + 1]

\* The `?` after the statement at position p: handle_inner returns the Err
\* and runs no further statement.
FailureOutcome(p) == [task |-> "errored", step |-> p]

\* The handler's error returned to the accept loop and propagated by its
\* `?`.
ListenerAfterError_Propagates(l) == "returned"

\* What the error of a handler does to the accept loop: nothing, the
\* spawned task logs it and handle_stream has long returned Ok(()).
ListenerAfterError(l) == l

\* The next statement completes with an Err: handle_inner returns it, the
\* task spawned by handle_stream logs it and ends.
HandleError(c) ==
    /\ Runnable(c)
    /\ fate[c].kind = "fail" /\ fate[c].at = HandlePlan[step[c]]
    /\ task' = [task EXCEPT ![c] = FailureOutcome(step[c]).task]
    /\ step' = [step EXCEPT ![c] = FailureOutcome(step[c]).step]
    /\ logged' = [logged EXCEPT ![c] = TRUE]
    /\ listener' = ListenerAfterError(listener)
    /\ UNCHANGED <<accepted, fate, wrote, h_trace, h_acceptError>>
    /\ UNCHANGED <<mgVars, smVars, rrVars>>

SvInit ==
    /\ listener = "accepting"
    /\ accepted = 0
    /\ fate \in [Conns -> Fates]
    /\ task = [c \in Conns |-> "none"]
    /\ step = [c \in Conns |-> 0]
    /\ wrote = [c \in Conns |-> <<>>]
    /\ logged = [c \in Conns |-> FALSE]
    /\ h_trace = [c \in Conns |-> <<>>]
    /\ h_acceptError = FALSE

SvNext ==
    \/ Accept
    \/ AcceptFails
    \/ \E c \in Conns : HandleStep(c)
    \/ \E c \in Conns : HandleError(c)

-----------------------------------------------------------------------------
(* Specifications: one per function under study; the variables of the      *)
(* others stay as they start.                                              *)

SmIdle ==
    /\ sm_pc = "start" /\ sm_in = <<>> /\ sm_splits = <<>>
    /\ sm_out = <<>> /\ sm_twice = <<>>

RrIdle ==
    /\ rr_pc = "idle" /\ rr_stream = <<>>
    /\ rr_sent = 0 /\ request = <<>> /\ len = 0 /\ rr_text = <<>>
    /\ rr_result = [ok |-> FALSE, error |-> "none"]

MgIdle ==
    /\ mg_pc = "idle" /\ out = <<>> /\ next_link_id = 1 /\ links = <<>>
    /\ result = <<>> /\ list = "none" /\ open = "flow"
    /\ h_events = 0 /\ h_linkEnds = 0 /\ h_itemNo = 0 /\ h_last = NoEvent
    /\ h_prev = [out |-> <<>>, links |-> <<>>]
    /\ h_sincePara = <<>>

SvIdle ==
    /\ listener = "idle" /\ accepted = 0
    /\ fate = <<>> /\ task = <<>> /\ step = <<>> /\ wrote = <<>>
    /\ logged = <<>> /\ h_trace = <<>> /\ h_acceptError = FALSE

\* to_gemini's conversion of one document.
InitMarkgem == MgInit /\ SmIdle /\ RrIdle /\ SvIdle

SpecMarkgem == InitMarkgem /\ [][MgNext]_vars

\* strip_matter on one text, and on its own result.
InitStrip == SmInit /\ MgIdle /\ RrIdle /\ SvIdle

SpecStrip == InitStrip /\ [][SmNext]_vars

\* read_request on one connection.
InitRequest == RrInit /\ MgIdle /\ SmIdle /\ SvIdle

SpecRequest == InitRequest /\ [][RrNext]_vars

\* serve: the accept loop and the tasks of the connections it accepts.
InitServe == SvInit /\ MgIdle /\ SmIdle /\ RrIdle

SpecServe == InitServe /\ [][SvNext]_vars

\* The same under the scheduling of the async-std executor: the accept loop
\* is resumed when a connection is pending, and every spawned task whose
\* next statement can complete is eventually polled.
SpecServeFair ==
    /\ SpecServe
    /\ WF_vars(Accept)
    /\ \A c \in Conns : WF_vars(HandleStep(c) \/ HandleError(c))

-----------------------------------------------------------------------------
(* Properties of Converter::convert and to_gemini, under SpecMarkgem.       *)

\* What the last loop iteration wrote.
Emitted == SubSeq(out, Len(h_prev.out) + 1, Len(out))

\* The decimal numeral of k, for the k this model reaches.
Numeral(k) ==
    IF k < 10 THEN <<(<<"1", "2", "3", "4", "5", "6", "7", "8", "9">>)[k]>>
    ELSE <<(<<"1", "2", "3", "4", "5", "6", "7", "8", "9">>)[k \div 10],
           (<<"0", "1", "2", "3", "4", "5", "6", "7", "8", "9">>)[(k % 10) + 1]>>

\* C1: the k-th End(Link) event writes the marker [k], and after any prefix
\* of events next_link_id is 1 + the number of End(Link) events seen, also
\* after End(Paragraph) events.
C1_LinkIdsSequential ==
    /\ next_link_id = 1 + h_linkEnds
    /\ h_last.kind = "EndLink" =>
           Emitted = <<"[">> \o Numeral(h_linkEnds) \o <<"]">>

\* C1 witness: the second link of a document gets its marker after a
\* paragraph end flushed the first.
C1_Witness ==
    /\ h_last.kind = "EndLink"
    /\ h_linkEnds = 2
    /\ Len(links) = 1
    /\ Emitted = <<"[", "2", "]">>

\* The line the claim gives for one queued link.
ExpectedLinkLine(link) ==
    IF link.title = <<>>
    THEN <<"=", ">", " ">> \o link.destination \o <<"\n">>
    ELSE <<"=", ">", " ">> \o link.destination \o <<" ">> \o link.title \o <<"\n">>

\* The lines of a queue, first enqueued first.
RECURSIVE ExpectedLinkLines(_)
ExpectedLinkLines(queue) ==
    IF Len(queue) = 0 THEN <<>>
    ELSE ExpectedLinkLines(SubSeq(queue, 1, Len(queue) - 1))
         \o ExpectedLinkLine(queue[Len(queue)])

\* C2: an End(Paragraph) event with a non-empty queue writes two newlines,
\* one line per queued link in queue order, and one more newline, after
\* everything written before; the queue is empty afterwards.
C2_ParagraphEndFlushesQueue ==
    (h_last.kind = "EndParagraph" /\ h_prev.links # <<>>) =>
        /\ SubSeq(out, 1, Len(h_prev.out)) = h_prev.out
        /\ Emitted = <<"\n", "\n">> \o ExpectedLinkLines(h_prev.links) \o <<"\n">>
        /\ links = <<>>

\* C2 witness: a paragraph end that flushed two links, one with a title and
\* one without.
C2_Witness ==
    /\ h_last.kind = "EndParagraph"
    /\ Len(h_prev.links) = 2
    /\ h_prev.links[1].title # <<>>
    /\ h_prev.links[2].title = <<>>
    /\ links = <<>>

\* C3: a Start(Heading(d)) event writes min(d, 3) '#' and one space; an
\* End(Heading) event writes two newlines.
C3_HeadingMarkers ==
    /\ h_last.kind = "StartHeading" =>
           Emitted = [i \in 1..(IF h_last.depth > 3 THEN 3 ELSE h_last.depth) |-> "#"]
                     \o <<" ">>
    /\ h_last.kind = "EndHeading" => Emitted = <<"\n", "\n">>

\* C3 witness: a heading deeper than three levels was started.
C3_Witness ==
    /\ h_last.kind = "StartHeading"
    /\ h_last.depth > 3
    /\ Emitted = <<"#", "#", "#", " ">>

\* C4: the k-th item of an ordered list is written with the prefix "k. ",
\* an item of an unordered list with the prefix "* ".
C4_OrderedItemsNumbered ==
    h_last.kind = "StartItem" =>
        Emitted = IF list = "ordered" THEN Numeral(h_itemNo) \o <<".", " ">>
                  ELSE <<"*", " ">>

\* C5: what to_gemini returns never ends with a newline, and is the rendered
\* output with nothing but trailing newlines removed.
C5_NoTrailingNewline ==
    mg_pc = "done" =>
        /\ result = <<>> \/ result[Len(result)] # "\n"
        /\ Len(result) <= Len(out)
        /\ SubSeq(out, 1, Len(result)) = result
        /\ \A i \in (Len(result) + 1)..Len(out) : out[i] = "\n"

\* C5 witness: a rendering that ended in several newlines was returned.
C5_Witness ==
    /\ mg_pc = "done"
    /\ result # <<>>
    /\ Len(out) >= Len(result) + 2

\* C6: while no End(Link) event has been seen the queue is empty and an
\* End(Paragraph) event writes its two newlines and nothing else.
C6_NoLinksNoFlush ==
    h_linkEnds = 0 =>
        /\ links = <<>>
        /\ h_last.kind = "EndParagraph" => Emitted = <<"\n", "\n">>

\* C6 witness: a paragraph of a document without links ended.
C6_Witness ==
    /\ h_linkEnds = 0
    /\ h_last.kind = "EndParagraph"
    /\ h_events >= 2
    /\ Emitted = <<"\n", "\n">>

-----------------------------------------------------------------------------
(* Properties of strip_matter, under SpecStrip.                             *)

\* Whether "+++" stands at index i of s.
DelimiterAt(s, i) ==
    /\ i >= 1 /\ i + 2 <= Len(s)
    /\ s[i] = "+" /\ s[i + 1] = "+" /\ s[i + 2] = "+"

\* The index of the leftmost "+++" of s, 0 when s holds none.
FirstDelimiter(s) ==
    IF \E i \in 1..Len(s) : DelimiterAt(s, i)
    THEN CHOOSE i \in 1..Len(s) :
             DelimiterAt(s, i) /\ \A j \in 1..(i - 1) : ~DelimiterAt(s, j)
    ELSE 0

\* What follows the delimiter at index i of s.
AfterDelimiter(s, i) == SubSeq(s, i + 3, Len(s))

\* The number of delimiters of s, counted left to right without overlap.
RECURSIVE DelimiterCount(_)
DelimiterCount(s) ==
    IF FirstDelimiter(s) = 0 THEN 0
    ELSE 1 + DelimiterCount(AfterDelimiter(s, FirstDelimiter(s)))

\* C7: strip_matter splits into at most three segments; it returns the
\* whole text when there is no delimiter, the text after the delimiter when
\* there is one, and everything after the second delimiter, further
\* delimiters included, when there are two or more.
C7_StripMatterSegments ==
    sm_pc # "start" =>
        LET first == FirstDelimiter(sm_in)
            rest == AfterDelimiter(sm_in, first)
            second == FirstDelimiter(rest)
        IN  /\ Len(sm_splits) \in 1..3
            /\ first = 0 => Len(sm_splits) = 1 /\ sm_out = sm_in
            /\ (first # 0 /\ second = 0) => Len(sm_splits) = 2 /\ sm_out = rest
            /\ (first # 0 /\ second # 0) =>
                   Len(sm_splits) = 3 /\ sm_out = AfterDelimiter(rest, second)

\* C7 witness: a text with more than two delimiters was stripped, and the
\* result keeps the later delimiter.
C7_Witness ==
    /\ sm_pc = "stripped"
    /\ Len(sm_splits) = 3
    /\ DelimiterCount(sm_in) = 3
    /\ DelimiterCount(sm_out) = 1

\* C8 as claimed: for every text, stripping the stripped text gives the
\* stripped text.
C8_Idempotent == sm_pc = "again" => sm_twice = sm_out

\* C8 as amended: stripping is idempotent on every text with at most two
\* delimiters; on a text with three or more the second application strips
\* again and returns a different text.
C8_IdempotentUpToTwoDelimiters ==
    sm_pc = "again" =>
        /\ DelimiterCount(sm_in) <= 2 => sm_twice = sm_out
        /\ DelimiterCount(sm_in) >= 3 => sm_twice # sm_out

\* C8 witness: a text with front matter between two delimiters and a
\* non-empty body was stripped twice.
C8_Witness ==
    /\ sm_pc = "again"
    /\ DelimiterCount(sm_in) = 2
    /\ sm_out # <<>>
    /\ sm_out # sm_in
    /\ sm_twice = sm_out

-----------------------------------------------------------------------------
(* Properties of read_request, under SpecRequest.                           *)

\* Whether CR LF stands at indices i and i + 1 of s.
TerminatorAt(s, i) ==
    /\ i >= 1 /\ i + 1 <= Len(s)
    /\ s[i] = "\r" /\ s[i + 1] = "\n"

\* The index of the first CR LF of s, 0 when s holds none.
FirstTerminator(s) ==
    IF \E i \in 1..Len(s) : TerminatorAt(s, i)
    THEN CHOOSE i \in 1..Len(s) :
             TerminatorAt(s, i) /\ \A j \in 1..(i - 1) : ~TerminatorAt(s, j)
    ELSE 0

\* read_request returned the framing error.
FramingFailed ==
    /\ rr_pc = "err"
    /\ rr_result = [ok |-> FALSE, error |-> "Unexpected end of request"]

\* C9, the states: read_request returns a URL only if a whole CR LF lies
\* within the first 1024 + 2 bytes of the stream and has been delivered;
\* when none does, whatever it returns is the framing error.
C9_States ==
    LET first == FirstTerminator(rr_stream)
        within == first # 0 /\ first + 1 <= MAX_URL_LENGTH + 2
    IN  /\ rr_pc = "ok" => within /\ first + 1 <= rr_sent
        /\ (rr_pc # "reading" /\ ~within) => FramingFailed

\* C9, the steps: a read that returns zero bytes (the stream has ended or
\* the 1026-byte buffer is full) before the terminator has been seen ends
\* read_request with the framing error.
C9_Steps ==
    (rr_pc = "reading" /\ len' = len) =>
        /\ rr_pc' = "err"
        /\ rr_result' = [ok |-> FALSE, error |-> "Unexpected end of request"]

\* C9: read_request fails whenever CR LF is not found within the first
\* 1024 + 2 bytes or the stream ends before a terminator has arrived; a
\* full buffer without terminator is rejected, never accepted truncated.
C9_FramingRejects == [](C9_States) /\ [][C9_Steps]_vars

\* C9 witness: the buffer was filled with 1026 bytes holding no terminator
\* and the request was rejected.
C9_Witness ==
    /\ FramingFailed
    /\ len = MAX_URL_LENGTH + 2
    /\ FirstTerminator(request) = 0
    /\ Len(rr_stream) > len

\* C10: however the bytes are split across reads, a stream whose first
\* CR LF follows exactly 1024 content bytes passes framing with those 1024
\* bytes as the URL text, and one with 1025 content bytes before its first
\* CR LF is rejected.
C10_LengthBoundary ==
    rr_pc # "reading" =>
        LET first == FirstTerminator(rr_stream)
        IN  /\ first = MAX_URL_LENGTH + 1 =>
                /\ ~FramingFailed
                /\ rr_text = SubSeq(rr_stream, 1, MAX_URL_LENGTH)
            /\ first = MAX_URL_LENGTH + 2 => FramingFailed

\* C10 witness: a gemini URL of exactly 1024 bytes was read and accepted.
C10_Witness ==
    /\ rr_pc = "ok"
    /\ Len(rr_text) = MAX_URL_LENGTH
    /\ rr_text = SubSeq(rr_stream, 1, MAX_URL_LENGTH)
    /\ FirstTerminator(rr_stream) = MAX_URL_LENGTH + 1

-----------------------------------------------------------------------------
(* Properties of the link queue, under SpecMarkgem.                         *)

\* s ends with t.
IsSuffix(t, s) ==
    /\ Len(t) <= Len(s)
    /\ SubSeq(s, Len(s) - Len(t) + 1, Len(s)) = t

\* C17: after every paragraph-end event the link queue is empty, and at
\* every point every queued link comes from a link-end event that followed
\* the last paragraph end: no link of an earlier paragraph is still queued
\* in a later one.
C17_QueueWithinParagraph ==
    /\ h_last.kind = "EndParagraph" => links = <<>>
    /\ IsSuffix(links, h_sincePara)

\* C17 witness: a link is queued after the links of an earlier paragraph
\* have been flushed.
C17_Witness ==
    /\ h_last.kind = "EndLink"
    /\ links # <<>>
    /\ h_linkEnds > Len(links)
    /\ Len(h_sincePara) < h_linkEnds

\* The number of link lines ("=> ...") in s; no text or marker of this
\* model holds '='.
LinkLineCount(s) ==
    Cardinality({i \in 1..(Len(s) - 2) :
                    s[i] = "=" /\ s[i + 1] = ">" /\ s[i + 2] = " "})

\* C18: when the conversion of any finite event sequence finishes, the link
\* queue is empty and the output holds exactly one link line per link-end
\* event, links inside headings and list items included.
C18_EveryLinkWritten ==
    mg_pc = "done" =>
        /\ links = <<>>
        /\ LinkLineCount(out) = h_linkEnds

-----------------------------------------------------------------------------
(* Properties of read_request's scheme check and read loop, under           *)
(* SpecRequest.                                                             *)

\* The loop has ended by finding the terminator: the URL text was sliced.
Framed == rr_pc # "reading" /\ ~FramingFailed

\* The scheme a URL text carries: what stands before its first ':', nothing
\* when it holds no ':'.
SchemeOf(text) ==
    IF \E i \in 1..Len(text) : text[i] = ":"
    THEN LET colon == CHOOSE i \in 1..Len(text) :
                          text[i] = ":" /\ \A j \in 1..(i - 1) : text[j] # ":"
         IN  SubSeq(text, 1, colon - 1)
    ELSE <<>>

\* C11: read_request returns a URL only if its scheme is gemini; a
\* (non-empty, decodable) URL text that carries no scheme is accepted with
\* the scheme set to gemini; a text with any other explicit scheme is
\* rejected with the unknown-scheme error.
C11_SchemeGemini ==
    (Framed /\ ValidUtf8(rr_text)) =>
        /\ rr_pc = "ok" => rr_result.scheme = Gemini
        /\ (rr_text # <<>> /\ SchemeOf(rr_text) = <<>>) =>
               rr_pc = "ok" /\ rr_result.scheme = Gemini
        /\ SchemeOf(rr_text) \notin {<<>>, Gemini} =>
               rr_result = [ok |-> FALSE, error |-> "Unknown url scheme"]

\* C19: the framing result is a function of the bytes of the stream alone,
\* whatever the reads deliver of it: read_request passes framing exactly
\* when the stream's first CR LF lies within the first 1024 + 2 bytes (as
\* it does when a read ends at that CR LF), and the URL text is then the
\* bytes before that first CR LF, so it holds no CR LF and no later byte.
C19_FramingByBytes ==
    rr_pc # "reading" =>
        LET first == FirstTerminator(rr_stream)
            within == first # 0 /\ first + 1 <= MAX_URL_LENGTH + 2
        IN  /\ within <=> ~FramingFailed
            /\ ~FramingFailed =>
                   /\ rr_text = SubSeq(rr_stream, 1, first - 1)
                   /\ FirstTerminator(rr_text) = 0

\* C20, the states: the filled length never exceeds the 1026 bytes of the
\* buffer, and whenever the URL text is sliced at least the two bytes of
\* the terminator are filled, the text being the len - 2 bytes before them.
C20_States ==
    /\ len <= MAX_URL_LENGTH + 2
    /\ Len(request) = len
    /\ Framed => /\ len >= 2
                 /\ Len(rr_text) = len - 2
                 /\ rr_text = SubSeq(request, 1, len - 2)

\* C20, the steps: every read either returns data, which grows the filled
\* length by at least one byte, or returns zero bytes and ends the loop. So
\* the loop ends after at most 1026 reads that return data and one that
\* returns none.
C20_Steps ==
    rr_pc = "reading" =>
        \/ len' > len
        \/ len' = len /\ rr_pc' = "err"

\* C20: the read loop is bounded and memory-safe whatever the client sends,
\* as long as each read returns.
C20_ReadLoopBounded == [](C20_States) /\ [][C20_Steps]_vars

\* C20 witness: the loop ended with just the terminator filled, the
\* smallest length the text is ever sliced at, and the text is empty.
C20_Witness ==
    /\ Framed
    /\ len = 2
    /\ rr_text = <<>>
    /\ rr_sent = 2

-----------------------------------------------------------------------------
(* Properties of the accept loop and the connection handlers, under         *)
(* SpecServe and SpecServeFair.                                             *)

\* Statement s of connection c's handler has completed with Ok.
Done(c, s) == \E i \in 1..Len(h_trace[c]) : h_trace[c][i] = s

\* Connection c fails at statement s.
FailsAt(c, s) == fate[c] = [kind |-> "fail", at |-> s]

\* C12: nothing is ever written to a client whose TLS handshake fails,
\* whose request cannot be read (framing, decoding, parsing, scheme) or
\* whose file is missing or unreadable: the failing step never completes,
\* no write or flush is ever done, and the handler never closes normally;
\* when it stops it is in the error state with zero bytes written.
C12_NoReplyOnFailure ==
    \A c \in Conns :
        (FailsAt(c, "accept") \/ FailsAt(c, "read_request")
                              \/ FailsAt(c, "read_to_string")) =>
            /\ wrote[c] = <<>>
            /\ task[c] \in {"none", "running", "errored"}
            /\ ~Done(c, fate[c].at)
            /\ ~Done(c, "write_status") /\ ~Done(c, "write_body")
            /\ ~Done(c, "flush")

\* C12 witness: the requested file could not be read; the handler ended in
\* the error state after handshake and request, having written nothing.
C12_Witness ==
    \E c \in Conns :
        /\ FailsAt(c, "read_to_string")
        /\ task[c] = "errored"
        /\ Done(c, "accept") /\ Done(c, "read_request")
        /\ wrote[c] = <<>>

\* C13: the file is read and converted before anything is written: whenever
\* the status line has been written the conversion has already succeeded,
\* and a reply that was written in full is the status line followed by the
\* converted body.
C13_ConvertBeforeWrite ==
    \A c \in Conns :
        /\ wrote[c] # <<>> =>
               /\ wrote[c][1] = StatusLine
               /\ Done(c, "read_to_string")
               /\ Done(c, "to_gemini")
        /\ task[c] = "closed" => wrote[c] = <<StatusLine, Body>>

\* C14, the states: a handler is in the error state only by a failure of
\* its own connection, and that error has been logged; the accept loop has
\* returned only if accepting itself failed.
C14_States ==
    /\ \A c \in Conns :
           task[c] = "errored" => logged[c] /\ fate[c].kind = "fail"
    /\ listener = "returned" => h_acceptError

\* C14, the steps: the step in which a handler fails leaves the accept loop
\* and every other connection as they were.
C14_Steps ==
    \A c \in Conns :
        (task[c] # "errored" /\ task'[c] = "errored") =>
            /\ listener' = listener
            /\ accepted' = accepted
            /\ \A d \in Conns \ {c} :
                   /\ task'[d] = task[d] /\ step'[d] = step[d]
                   /\ wrote'[d] = wrote[d] /\ logged'[d] = logged[d]

\* C14: every error raised while handling one connection is contained to
\* that connection's task: it is logged, the accept loop keeps running and
\* never returns because of it, and no other connection is affected.
C14_ErrorsContained == [](C14_States) /\ [][C14_Steps]_vars

\* C14 witness: one handler failed and logged its error, the accept loop is
\* still accepting, and a connection accepted later was served in full.
C14_Witness ==
    \E c, d \in Conns :
        /\ c < d
        /\ task[c] = "errored" /\ logged[c]
        /\ task[d] = "closed" /\ wrote[d] = <<StatusLine, Body>>
        /\ listener = "accepting"

\* Connection c has been served in full.
Served(c) == task[c] = "closed" /\ wrote[c] = <<StatusLine, Body>>

\* C15: the accept loop is never blocked by one client. Whatever the other
\* clients do, stalling for ever included, a connection whose own steps all
\* succeed is eventually accepted and served in full (and stays so), unless
\* accepting itself fails and ends the server.
C15_ListenerNeverBlocked ==
    <>(\/ \A c \in Conns : fate[c].kind = "ok" => Served(c)
       \/ listener = "returned")

\* C15 witness: a client stalls in its handshake for ever while a
\* connection accepted after it has been served in full.
C15_Witness ==
    \E c, d \in Conns :
        /\ c < d
        /\ fate[c] = [kind |-> "stall", at |-> "accept"]
        /\ task[c] = "running" /\ HandlePlan[step[c]] = "accept"
        /\ Served(d)

\* The state of the handler's state machine a completed statement belongs
\* to: 1 Accepted, 2 TLS-Negotiated, 3 Request-Read, 4 Replying.
Rank(s) ==
    IF s = "peer_addr" THEN 1
    ELSE IF s = "accept" THEN 2
    ELSE IF s = "read_request" THEN 3
    ELSE 4

\* C16, the states: the statements a handler has completed go through
\* Accepted, TLS-Negotiated, Request-Read, Replying in this order, none
\* skipped and no statement done twice; so the request is read only after
\* the handshake, and the reply starts only after exactly one request has
\* been read; a handler is closed only after the flush that ends the reply.
C16_States ==
    \A c \in Conns :
        LET t == h_trace[c]
        IN  /\ \A i, j \in 1..Len(t) : t[i] = t[j] => i = j
            /\ t # <<>> => Rank(t[1]) = 1
            /\ \A i \in 1..(Len(t) - 1) :
                   Rank(t[i + 1]) \in {Rank(t[i]), Rank(t[i]) + 1}
            /\ \A i \in 1..(Len(t) - 1) :
                   Rank(t[i]) < 4 => Rank(t[i + 1]) = Rank(t[i]) + 1
            /\ task[c] = "closed" <=> (t # <<>> /\ t[Len(t)] = "flush")
            /\ task[c] = "none" => t = <<>> /\ wrote[c] = <<>>

\* C16, the steps: a handler that is closed or in the error state takes no
\* further step: it reads, writes and flushes nothing more.
C16_Steps ==
    \A c \in Conns :
        task[c] \in {"closed", "errored"} =>
            /\ task'[c] = task[c]
            /\ h_trace'[c] = h_trace[c]
            /\ wrote'[c] = wrote[c]
            /\ step'[c] = step[c]

\* C16: each connection moves through Accepted, TLS-Negotiated,
\* Request-Read, Replying, Closed strictly in this order, and once it has
\* entered Errored it takes no further step.
C16_StrictOrder == [](C16_States) /\ [][C16_Steps]_vars

\* C16 witness: a handler went through all the states and closed.
C16_Witness ==
    \E c \in Conns :
        /\ task[c] = "closed"
        /\ Len(h_trace[c]) = Len(HandlePlan)
        /\ Done(c, "accept") /\ Done(c, "read_request") /\ Done(c, "flush")

=============================================================================
